---------------------------- MODULE Spec2Model ----------------------------
(***************************************************************************)
(* DeadlockSSH: a threaded SSH tarpit (src/deadlockssh.py) with an         *)
(* optional HTTP statistics exporter (src/http_stats_server.py).           *)
(*                                                                         *)
(* Threads of control:                                                     *)
(*   - the main thread runs DeadlockSSH.start(); signal handlers run on    *)
(*     the main thread too, between two of its steps, as a nested call of  *)
(*     shutdown().  The main thread is a call stack, mstack.               *)
(*   - one daemon thread per accepted connection runs handle_client().     *)
(*   - one daemon thread runs HTTPStatsServer.run() when enabled.          *)
(* A statement `d[k] += 1` on shared state is a read followed by a write;  *)
(* another thread may run in between.  One step of a thread holds at most  *)
(* one access to state that another thread reads or writes.                *)
(*                                                                         *)
(* Left out: self.ip_connection_counts and self.connection_count (only     *)
(* logged) and the log itself.  The bytes a handler receives are followed  *)
(* for one call of monitor_connection() on its own (BufferSpec).           *)
(* cleanup_threads() scans the thread set in one step.                     *)
(***************************************************************************)
EXTENDS Integers, Sequences, FiniteSets, TLC

(* ------------------------------ bounds --------------------------------- *)
\* connections the listener accepts in one run (three in BurstSpec)
MaxConn == 2
\* SIGINT/SIGTERM deliveries in one run
MaxSignals == 1
\* distinct client addresses
NumAddrs == 2

\* connections the listener accepts in a run in which they all come from one
\* address and no signal is delivered (BurstSpec)
MaxBurst == 3

Conns == 1..MaxBurst
Addrs == 1..NumAddrs

\* a byte is one of 0..MaxByte
MaxByte == 1
\* the most bytes one recv() returns (1024 at line 327, scaled down)
MaxRecv == 3
\* monitor_connection() is followed while its buffer and the next chunk
\* together have at most MaxBuffer bytes
MaxBuffer == 6

\* the clock of the drain loop ticks once per poll (line 407, time.sleep(0.1));
\* TickUnits is the length of a tick in time units
TickUnits == 4

(* --------------------------- program constants ------------------------- *)
\* shutdown(), line 405: the grace period, in time units
GracePeriod == 10

\* the configurations a run may be started with (load_config accepts any
\* numbers): the default initial_delay and delay_increment with a max_delay
\* that two connections reach, with and without the exporter
Configs ==
    { [initial_delay |-> 1, delay_increment |-> 2, max_delay |-> 4, enable_http_stats |-> e,
       max_input_length |-> 2] :
        e \in BOOLEAN }

\* configurations load_config() takes from a file as they are (lines 119-121
\* read three unrelated floats): initial_delay below and above max_delay
LoadableConfigs ==
    { [initial_delay |-> i, delay_increment |-> 2, max_delay |-> 4, enable_http_stats |-> FALSE,
       max_input_length |-> 2] :
        i \in {1, 5} }

\* configurations that differ in max_input_length, which line 126 reads with
\* getint() and takes as it is: 0 (log no input), 1 and 2
BufferConfigs ==
    { [initial_delay |-> 1, delay_increment |-> 2, max_delay |-> 4, enable_http_stats |-> FALSE,
       max_input_length |-> m] :
        m \in 0..2 }

Min(a, b) == IF a <= b THEN a ELSE b

VARIABLES
    cfg,                 \* self.config
    running,             \* self.running
    server_socket,       \* self.server_socket: "none" | "unbound" | "listening" | "closed"
    active_connections,  \* self.active_connections: set of handler threads
    stats,               \* self.stats
    ip_delays,           \* self.ip_delays: defaultdict, a function on the keys present
    mstack,              \* call stack of the main thread; <<>> once the process has exited
    signals,             \* signals delivered so far
    accepted,            \* connections accept() has returned so far
    pc,                  \* per connection: position of its handler
    addr,                \* per connection: client_ip
    sock,                \* per connection: client socket, "none" | "open" | "closed"
    tmp,                 \* per handler: value read by the read half of an update
    current_delay,       \* per handler: local current_delay while it is in use, else -1
    teardown,            \* per handler: how often each teardown step has run
    updated,             \* per handler: the statistics update (lines 249-252) has run
    http,                \* exporter thread: "none" | "starting" | "serving" | "busy" | "copied" |
                         \*   "stopped" | "failed"
    shutdown_request,    \* BaseServer.__shutdown_request of the exporter
    seqOK,               \* per address: no two of its connections have overlapped so far
    nFinal,              \* times the final statistics have been logged
    snap,                \* exporter: current_stats of the do_GET in progress
    snap_seen,           \* the per-address mappings that have been live together with the
                         \*   counters of snap since they were copied
    exit_code,           \* exit status of the process, -1 while it runs
    buffer               \* monitor_connection(): the local buffer, a sequence of bytes

vars == << cfg, running, server_socket, active_connections, stats, ip_delays,
           mstack, signals, accepted, pc, addr, sock, tmp, current_delay,
           teardown, updated, http, shutdown_request, seqOK, nFinal,
           snap, snap_seen, exit_code, buffer >>

connVars == << pc, addr, sock, tmp, current_delay, teardown, updated >>
httpVars == << http, shutdown_request, snap, snap_seen >>

(* ------------------------------- helpers ------------------------------- *)
Frame(fn, p) == [fn |-> fn, pc |-> p, elapsed |-> 0]

Alive == mstack # << >>
Top == mstack[Len(mstack)]
At(fn, p) == Alive /\ Top.fn = fn /\ Top.pc = p

\* the main thread's current frame moves to position p
Goto(p) == [mstack EXCEPT ![Len(mstack)].pc = p]
Pop == SubSeq(mstack, 1, Len(mstack) - 1)

\* threading.Thread.is_alive(): started and not yet finished
is_alive(h) == pc[h] \notin {"none", "accepted", "registered", "done"}

\* self.ip_delays[ip] of the defaultdict: the stored value, or initial_delay
DelayOf(d, a) == IF a \in DOMAIN d THEN d[a] ELSE cfg.initial_delay

\* the defaultdict after a read of key a (a missing key is inserted)
Touch(d, a) == IF a \in DOMAIN d THEN d ELSE d @@ (a :> cfg.initial_delay)

\* lines 255-258: current_delay = min(self.ip_delays[ip], max_delay)
get_delay(stored) == Min(stored, cfg.max_delay)

\* the teardown update with the increment multiplied in instead of added
record_connection_end_times(stored) == Min(stored * cfg.delay_increment, cfg.max_delay)

\* lines 285-288: min(self.ip_delays[ip] + delay_increment, max_delay)
record_connection_end(stored) == Min(stored + cfg.delay_increment, cfg.max_delay)

\* cleanup_threads(): the set without the threads that are not alive
cleanup_threads(S) == { t \in S : is_alive(t) }

\* self.stats as __init__ builds it (lines 82-87), start_time left out
NoStats == [total_connections |-> 0, active_connections |-> 0,
            connections_per_ip |-> [a \in Addrs |-> 0]]

\* what recv(1024) can return apart from b'': a chunk of 1 to MaxRecv bytes
Chunks == UNION { [1..n -> 0..MaxByte] : n \in 1..MaxRecv }

\* the Python slice b[start:] of a bytes object: a negative start counts from
\* the end, and either way the start is clamped to the object
slice_from(b, start) ==
    LET k == IF start < 0
               THEN (IF start + Len(b) < 0 THEN 0 ELSE start + Len(b))
               ELSE Min(start, Len(b))
    IN  SubSeq(b, k + 1, Len(b))

\* monitor_connection(), lines 331 and 347-349: the buffer after a read of data
after_read(buf, data) ==
    LET b == buf \o data
    IN  IF Len(b) > cfg.max_input_length * 2
          THEN slice_from(b, -cfg.max_input_length)
          ELSE b

(* -------------------------------- Init --------------------------------- *)
\* the state after DeadlockSSH(config_file), the configuration being one of C
Start(C) ==
    /\ cfg \in C
    /\ running = FALSE
    /\ server_socket = "none"
    /\ active_connections = {}
    /\ stats = NoStats
    /\ ip_delays = << >>
    /\ mstack = << Frame("start", "bind") >>
    /\ signals = 0
    /\ accepted = 0
    /\ pc = [h \in Conns |-> "none"]
    /\ addr = [h \in Conns |-> 1]
    /\ sock = [h \in Conns |-> "none"]
    /\ tmp = [h \in Conns |-> 0]
    /\ current_delay = [h \in Conns |-> -1]
    /\ teardown = [h \in Conns |-> [delay |-> 0, close |-> 0, dec |-> 0]]
    /\ updated = [h \in Conns |-> FALSE]
    /\ http = "none"
    /\ shutdown_request = FALSE
    /\ seqOK = [a \in Addrs |-> TRUE]
    /\ nFinal = 0
    /\ snap = NoStats
    /\ snap_seen = {}
    /\ exit_code = -1
    /\ buffer = << >>

Init == Start(Configs)

\* a call of shutdown() on the main thread whose stack is stk, lines 382-383:
\* `if not self.running: return`, else a new frame that goes on at line 385.
\* Only the main thread writes self.running, so the test is one step with the call.
shutdown(stk) == IF running THEN Append(stk, Frame("shutdown", "set")) ELSE stk

(* ---------------------- main thread: start() --------------------------- *)
\* lines 184-196: create, bind and listen; running = True.  A failure of bind
\* or listen leaves the socket object unbound and raises into line 225.
start_bind ==
    /\ At("start", "bind")
    /\ \/ /\ server_socket' = "listening"
          /\ running' = TRUE
          /\ mstack' = Goto("http")
       \/ /\ server_socket' = "unbound"
          /\ running' = running
          /\ mstack' = Goto("finally")
    /\ UNCHANGED << cfg, active_connections, stats, ip_delays, signals, accepted,
                    connVars, httpVars, seqOK, nFinal, exit_code, buffer >>

\* lines 198-200 and start_http_stats_server(): start the exporter thread
start_http_stats_server ==
    /\ At("start", "http")
    /\ http' = IF cfg.enable_http_stats THEN "starting" ELSE http
    /\ mstack' = Goto("loop")
    /\ UNCHANGED << cfg, running, server_socket, active_connections, stats, ip_delays,
                    signals, accepted, connVars, shutdown_request, snap, snap_seen,
                    seqOK, nFinal, exit_code, buffer >>

\* line 203: while self.running
start_loop ==
    /\ At("start", "loop")
    /\ mstack' = Goto(IF running THEN "accept" ELSE "finally")
    /\ UNCHANGED << cfg, running, server_socket, active_connections, stats, ip_delays,
                    signals, accepted, connVars, httpVars, seqOK, nFinal, exit_code, buffer >>

\* a connection of address a is live: accepted and its handler not finished
Live(h) == pc[h] \notin {"none", "done"}

\* addresses are numbered in the order in which they first connect
Seen == { addr[h] : h \in 1..accepted }
NextAddrs == { a \in Addrs : \A b \in Addrs : b < a => b \in Seen }

\* line 205: accept() returns a connection from address a, one of the n
\* connections of the run
accept(n, a) ==
    /\ At("start", "accept")
    /\ server_socket = "listening"
    /\ accepted < n
    /\ a \in NextAddrs
    /\ LET h == accepted + 1 IN
        /\ accepted' = h
        /\ pc' = [pc EXCEPT ![h] = "accepted"]
        /\ addr' = [addr EXCEPT ![h] = a]
        /\ sock' = [sock EXCEPT ![h] = "open"]
        /\ seqOK' = [seqOK EXCEPT ![a] = @ /\ ~(\E g \in Conns : Live(g) /\ addr[g] = a)]
    /\ mstack' = Goto("spawn")
    /\ UNCHANGED << cfg, running, server_socket, active_connections, stats, ip_delays,
                    signals, tmp, current_delay, teardown, updated, httpVars, nFinal,
                    exit_code, buffer >>

start_accept(a) == accept(MaxConn, a)

\* lines 205, 220-223: accept() raises socket.error (always so on a closed
\* socket); the error is logged if running, and the loop is left
start_accept_error ==
    /\ At("start", "accept")
    /\ server_socket \in {"listening", "closed"}
    /\ mstack' = Goto("finally")
    /\ UNCHANGED << cfg, running, server_socket, active_connections, stats, ip_delays,
                    signals, accepted, connVars, httpVars, seqOK, nFinal, exit_code, buffer >>

\* lines 208-214: create the thread object and add it to active_connections
start_spawn ==
    /\ At("start", "spawn")
    /\ active_connections' = active_connections \cup {accepted}
    /\ pc' = [pc EXCEPT ![accepted] = "registered"]
    /\ mstack' = Goto("thread_start")
    /\ UNCHANGED << cfg, running, server_socket, stats, ip_delays, signals, accepted,
                    addr, sock, tmp, current_delay, teardown, updated,
                    httpVars, seqOK, nFinal, exit_code, buffer >>

\* line 215: client_thread.start()
start_thread_start ==
    /\ At("start", "thread_start")
    /\ pc' = [pc EXCEPT ![accepted] = "setup"]
    /\ mstack' = Goto("cleanup")
    /\ UNCHANGED << cfg, running, server_socket, active_connections, stats, ip_delays,
                    signals, accepted, addr, sock, tmp, current_delay,
                    teardown, updated, httpVars, seqOK, nFinal, exit_code, buffer >>

\* line 218: self.cleanup_threads()
start_cleanup ==
    /\ At("start", "cleanup")
    /\ active_connections' = cleanup_threads(active_connections)
    /\ mstack' = Goto("loop")
    /\ UNCHANGED << cfg, running, server_socket, stats, ip_delays, signals, accepted,
                    connVars, httpVars, seqOK, nFinal, exit_code, buffer >>

\* lines 227-228: finally: self.shutdown()
start_finally ==
    /\ At("start", "finally")
    /\ mstack' = shutdown(Goto("return"))
    /\ UNCHANGED << cfg, running, server_socket, active_connections, stats, ip_delays,
                    signals, accepted, connVars, httpVars, seqOK, nFinal, exit_code, buffer >>

\* start() returns to main() (line 446), whatever happened in it: line 225
\* has caught every exception.  main() returns and the process exits with
\* status 0, and its daemon threads with it.
start_return ==
    /\ At("start", "return")
    /\ mstack' = << >>
    /\ exit_code' = 0
    /\ UNCHANGED << cfg, running, server_socket, active_connections, stats, ip_delays,
                    signals, accepted, connVars, httpVars, seqOK, nFinal, buffer >>

\* lines 167-176: SIGINT/SIGTERM: the handler runs on the main thread, on top
\* of whatever the main thread is doing, and calls shutdown()
signal_handler ==
    /\ Alive
    /\ signals < MaxSignals
    /\ signals' = signals + 1
    /\ mstack' = shutdown(mstack)
    /\ UNCHANGED << cfg, running, server_socket, active_connections, stats, ip_delays,
                    accepted, connVars, httpVars, seqOK, nFinal, exit_code, buffer >>

(* --------------------- main thread: shutdown() ------------------------- *)
\* lines 385-393: log "Shutting down", self.running = False, close the
\* listening socket (which no other thread uses)
shutdown_set ==
    /\ At("shutdown", "set")
    /\ running' = FALSE
    /\ server_socket' = IF server_socket = "none" THEN "none" ELSE "closed"
    /\ mstack' = Goto("http")
    /\ UNCHANGED << cfg, active_connections, stats, ip_delays,
                    signals, accepted, connVars, httpVars, seqOK, nFinal, exit_code, buffer >>

\* the exporter's self.httpd is set: TCPServer() has returned
httpd_set == http \in {"serving", "busy", "copied", "stopped"}

\* lines 396-397 and HTTPStatsServer.shutdown() up to httpd.shutdown():
\* BaseServer.shutdown() sets the request flag and then waits for the loop.
\* With no exporter thread, or one whose httpd is still None, nothing is
\* waited for (lines 398-400 join with a timeout and only warn).
shutdown_http ==
    /\ At("shutdown", "http")
    /\ IF http # "none" /\ httpd_set
         THEN /\ mstack' = Goto("http_wait")
              /\ shutdown_request' = TRUE
         ELSE /\ mstack' = Goto("drain")
              /\ UNCHANGED shutdown_request
    /\ UNCHANGED << cfg, running, server_socket, active_connections, stats, ip_delays,
                    signals, accepted, connVars, http, snap, snap_seen,
                    seqOK, nFinal, exit_code, buffer >>

\* httpd.shutdown() returns once serve_forever() has ended; then
\* server_close() and lines 398-400
shutdown_http_wait ==
    /\ At("shutdown", "http_wait")
    /\ http = "stopped"
    /\ mstack' = Goto("drain")
    /\ UNCHANGED << cfg, running, server_socket, active_connections, stats, ip_delays,
                    signals, accepted, connVars, httpVars, seqOK, nFinal, exit_code, buffer >>

\* line 405: the test of the drain loop
drain_continues == active_connections # {} /\ Top.elapsed < GracePeriod

\* lines 405-407, one round of the drain loop: cleanup_threads(), then
\* time.sleep(0.1), which advances the clock by a tick
shutdown_drain ==
    /\ At("shutdown", "drain")
    /\ drain_continues
    /\ active_connections' = cleanup_threads(active_connections)
    /\ mstack' = [mstack EXCEPT ![Len(mstack)].elapsed = @ + TickUnits]
    /\ UNCHANGED << cfg, running, server_socket, stats, ip_delays,
                    signals, accepted, connVars, httpVars, seqOK, nFinal, exit_code, buffer >>

\* lines 405, 410-416: the loop ends; log the final statistics and return
shutdown_final ==
    /\ At("shutdown", "drain")
    /\ ~drain_continues
    /\ nFinal' = nFinal + 1
    /\ mstack' = Pop
    /\ UNCHANGED << cfg, running, server_socket, active_connections, stats, ip_delays,
                    signals, accepted, connVars, httpVars, seqOK, exit_code, buffer >>

(* ------------------ exporter thread: HTTPStatsServer ------------------- *)
\* run(), line 22: TCPServer() binds the stats port, or raises (line 25)
http_bind ==
    /\ Alive
    /\ http = "starting"
    /\ http' \in {"serving", "failed"}
    /\ UNCHANGED << cfg, running, server_socket, active_connections, stats, ip_delays,
                    mstack, signals, accepted, connVars, shutdown_request, snap, snap_seen,
                    seqOK, nFinal, exit_code, buffer >>

\* serve_forever(): a request arrives and do_GET starts handling it
http_request ==
    /\ Alive
    /\ http = "serving"
    /\ ~shutdown_request
    /\ http' = "busy"
    /\ UNCHANGED << cfg, running, server_socket, active_connections, stats, ip_delays,
                    mstack, signals, accepted, connVars, shutdown_request, snap, snap_seen,
                    seqOK, nFinal, exit_code, buffer >>

\* do_GET, lines 35-41: the client has asked for /stats;
\* current_stats = _stats_ref.copy() copies the two counters, while
\* current_stats["connections_per_ip"] is still the live Counter itself
do_GET_copy ==
    /\ Alive
    /\ http = "busy"
    /\ http' = "copied"
    /\ snap' = [stats EXCEPT !.connections_per_ip = NoStats.connections_per_ip]
    /\ snap_seen' = {stats.connections_per_ip}
    /\ UNCHANGED << cfg, running, server_socket, active_connections, stats, ip_delays,
                    mstack, signals, accepted, connVars, shutdown_request,
                    seqOK, nFinal, exit_code, buffer >>

\* the snapshot a do_GET between its two copies serialises if line 43 runs
\* now: the copied counters with the live mapping
current_stats == [snap EXCEPT !.connections_per_ip = stats.connections_per_ip]

\* do_GET, lines 43-46: dict(current_stats["connections_per_ip"]) copies the
\* live Counter as it is now; current_stats is serialised and written out,
\* and the request is finished
do_GET_dict ==
    /\ Alive
    /\ http = "copied"
    /\ http' = "serving"
    /\ snap' = NoStats
    /\ snap_seen' = {}
    /\ UNCHANGED << cfg, running, server_socket, active_connections, stats, ip_delays,
                    mstack, signals, accepted, connVars, shutdown_request,
                    seqOK, nFinal, exit_code, buffer >>

\* the request is finished without a snapshot: the client has asked for
\* another path (lines 47-52), or has gone away
http_request_done ==
    /\ Alive
    /\ http = "busy"
    /\ http' = "serving"
    /\ UNCHANGED << cfg, running, server_socket, active_connections, stats, ip_delays,
                    mstack, signals, accepted, connVars, shutdown_request, snap, snap_seen,
                    seqOK, nFinal, exit_code, buffer >>

\* serve_forever() sees the request flag between two requests and ends
http_stop ==
    /\ Alive
    /\ http = "serving"
    /\ shutdown_request
    /\ http' = "stopped"
    /\ shutdown_request' = FALSE
    /\ UNCHANGED << cfg, running, server_socket, active_connections, stats, ip_delays,
                    mstack, signals, accepted, connVars, snap, snap_seen,
                    seqOK, nFinal, exit_code, buffer >>

(* ---------------- handler threads: handle_client() --------------------- *)
\* snap_seen once self.stats has become s: while a do_GET is between its two
\* copies, the mapping of s is added if the counters of s are the copied ones
Observed(s) ==
    IF /\ http = "copied"
       /\ s.total_connections = snap.total_connections
       /\ s.active_connections = snap.active_connections
      THEN snap_seen \cup {s.connections_per_ip}
      ELSE snap_seen

\* what no handler step changes
mainVars == << cfg, running, server_socket, active_connections, mstack, signals,
               accepted, addr, http, shutdown_request, snap, seqOK, nFinal,
               exit_code, buffer >>

\* a handler whose exception escapes handle_client() without the finally block
Finally_skipped(h) == pc' = [pc EXCEPT ![h] = "done"]

\* leave the try block (break, return or a caught exception): the finally
\* block of line 283 runs next
Finally(h) == pc' = [pc EXCEPT ![h] = "fin_read"]

\* lines 240-246: settimeout() and setsockopt(SO_KEEPALIVE); either may raise
\* OSError on a connection the peer has already torn down
hc_setup(h) ==
    /\ Alive /\ pc[h] = "setup"
    /\ \/ pc' = [pc EXCEPT ![h] = "total_read"]
       \/ Finally(h)
    /\ UNCHANGED << mainVars, stats, snap_seen, ip_delays, sock, tmp, current_delay, teardown, updated >>

\* line 249: self.stats['total_connections'] += 1, the read
hc_total_read(h) ==
    /\ Alive /\ pc[h] = "total_read"
    /\ tmp' = [tmp EXCEPT ![h] = stats.total_connections]
    /\ pc' = [pc EXCEPT ![h] = "total_write"]
    /\ UNCHANGED << mainVars, stats, snap_seen, ip_delays, sock, current_delay, teardown, updated >>

\* line 249, the write
hc_total_write(h) ==
    /\ Alive /\ pc[h] = "total_write"
    /\ stats' = [stats EXCEPT !.total_connections = tmp[h] + 1]
    /\ snap_seen' = Observed(stats')
    /\ tmp' = [tmp EXCEPT ![h] = 0]
    /\ pc' = [pc EXCEPT ![h] = "active_read"]
    /\ UNCHANGED << mainVars, ip_delays, sock, current_delay, teardown, updated >>

\* line 250: self.stats['active_connections'] += 1, the read
hc_active_read(h) ==
    /\ Alive /\ pc[h] = "active_read"
    /\ tmp' = [tmp EXCEPT ![h] = stats.active_connections]
    /\ pc' = [pc EXCEPT ![h] = "active_write"]
    /\ UNCHANGED << mainVars, stats, snap_seen, ip_delays, sock, current_delay, teardown, updated >>

\* line 250, the write
hc_active_write(h) ==
    /\ Alive /\ pc[h] = "active_write"
    /\ stats' = [stats EXCEPT !.active_connections = tmp[h] + 1]
    /\ snap_seen' = Observed(stats')
    /\ tmp' = [tmp EXCEPT ![h] = 0]
    /\ pc' = [pc EXCEPT ![h] = "per_ip_read"]
    /\ UNCHANGED << mainVars, ip_delays, sock, current_delay, teardown, updated >>

\* line 251: self.stats['connections_per_ip'][client_ip] += 1, the read
hc_per_ip_read(h) ==
    /\ Alive /\ pc[h] = "per_ip_read"
    /\ tmp' = [tmp EXCEPT ![h] = stats.connections_per_ip[addr[h]]]
    /\ pc' = [pc EXCEPT ![h] = "per_ip_write"]
    /\ UNCHANGED << mainVars, stats, snap_seen, ip_delays, sock, current_delay, teardown, updated >>

\* line 251, the write; the statistics update is complete
hc_per_ip_write(h) ==
    /\ Alive /\ pc[h] = "per_ip_write"
    /\ stats' = [stats EXCEPT !.connections_per_ip[addr[h]] = tmp[h] + 1]
    /\ snap_seen' = Observed(stats')
    /\ tmp' = [tmp EXCEPT ![h] = 0]
    /\ updated' = [updated EXCEPT ![h] = TRUE]
    /\ pc' = [pc EXCEPT ![h] = "delay"]
    /\ UNCHANGED << mainVars, ip_delays, sock, current_delay, teardown >>

\* a handler that sends the banner without applying the delay
hc_delay_nosleep(h) ==
    /\ Alive /\ pc[h] = "delay"
    /\ current_delay' = [current_delay EXCEPT ![h] = -1]
    /\ ip_delays' = Touch(ip_delays, addr[h])
    /\ pc' = [pc EXCEPT ![h] = "banner"]
    /\ UNCHANGED << mainVars, stats, snap_seen, sock, tmp, teardown, updated >>

\* lines 255-258: current_delay = min(self.ip_delays[client_ip], max_delay)
hc_delay(h) ==
    /\ Alive /\ pc[h] = "delay"
    /\ current_delay' = [current_delay EXCEPT ![h] = get_delay(DelayOf(ip_delays, addr[h]))]
    /\ ip_delays' = Touch(ip_delays, addr[h])
    /\ pc' = [pc EXCEPT ![h] = "sleep"]
    /\ UNCHANGED << mainVars, stats, snap_seen, sock, tmp, teardown, updated >>

\* lines 268-269: time.sleep(current_delay) is over; the local is not read again
hc_sleep(h) ==
    /\ Alive /\ pc[h] = "sleep"
    /\ pc' = [pc EXCEPT ![h] = "banner"]
    /\ current_delay' = [current_delay EXCEPT ![h] = -1]
    /\ UNCHANGED << mainVars, stats, snap_seen, ip_delays, sock, tmp, teardown, updated >>

\* line 272, send_ssh_banner(): sent in full, or cut short by a send error
\* that the function swallows (lines 312-313)
send_ssh_banner(h) ==
    /\ Alive /\ pc[h] = "banner"
    /\ pc' = [pc EXCEPT ![h] = "monitor"]
    /\ UNCHANGED << mainVars, stats, snap_seen, ip_delays, sock, tmp, current_delay, teardown, updated >>

\* monitor_connection(), line 325: while self.running
monitor_check(h) ==
    /\ Alive /\ pc[h] = "monitor"
    /\ IF running
         THEN pc' = [pc EXCEPT ![h] = "recv"]
         ELSE Finally(h)
    /\ UNCHANGED << mainVars, stats, snap_seen, ip_delays, sock, tmp, current_delay, teardown, updated >>

\* lines 327, 351: recv() times out after connection_timeout and raises
\* socket.timeout, which the except clause of line 351 catches
monitor_timeout(h) ==
    /\ Alive /\ pc[h] = "recv"
    /\ pc' = [pc EXCEPT ![h] = "timeout"]
    /\ UNCHANGED << mainVars, stats, snap_seen, ip_delays, sock, tmp, current_delay, teardown, updated >>

\* an except clause that leaves the loop on a timeout (break for continue)
monitor_continue_break(h) ==
    /\ Alive /\ pc[h] = "timeout"
    /\ Finally(h)
    /\ UNCHANGED << mainVars, stats, snap_seen, ip_delays, sock, tmp, current_delay, teardown, updated >>

\* lines 353, 325: continue, and the test of the loop again
monitor_continue(h) ==
    /\ Alive /\ pc[h] = "timeout"
    /\ IF running
         THEN pc' = [pc EXCEPT ![h] = "recv"]
         ELSE Finally(h)
    /\ UNCHANGED << mainVars, stats, snap_seen, ip_delays, sock, tmp, current_delay, teardown, updated >>

\* lines 327-349: recv() returns data, which is logged
monitor_data(h) ==
    /\ Alive /\ pc[h] = "recv"
    /\ pc' = [pc EXCEPT ![h] = "monitor"]
    /\ UNCHANGED << mainVars, stats, snap_seen, ip_delays, sock, tmp, current_delay, teardown, updated >>

\* lines 328-329: recv() returns b'': the peer has closed
monitor_eof(h) ==
    /\ Alive /\ pc[h] = "recv"
    /\ Finally(h)
    /\ UNCHANGED << mainVars, stats, snap_seen, ip_delays, sock, tmp, current_delay, teardown, updated >>

\* lines 354-355: recv() raises socket.error (a reset, any I/O error)
monitor_error(h) ==
    /\ Alive /\ pc[h] = "recv"
    /\ Finally(h)
    /\ UNCHANGED << mainVars, stats, snap_seen, ip_delays, sock, tmp, current_delay, teardown, updated >>

\* lines 285-286, finally: the read of self.ip_delays[client_ip]
finally_read(h) ==
    /\ Alive /\ pc[h] = "fin_read"
    /\ tmp' = [tmp EXCEPT ![h] = DelayOf(ip_delays, addr[h])]
    /\ ip_delays' = Touch(ip_delays, addr[h])
    /\ pc' = [pc EXCEPT ![h] = "fin_write"]
    /\ UNCHANGED << mainVars, stats, snap_seen, sock, current_delay, teardown, updated >>

\* lines 285-288: the store of min(read + delay_increment, max_delay)
finally_write(h) ==
    /\ Alive /\ pc[h] = "fin_write"
    /\ ip_delays' = [ip_delays EXCEPT ![addr[h]] = record_connection_end(tmp[h])]
    /\ tmp' = [tmp EXCEPT ![h] = 0]
    /\ teardown' = [teardown EXCEPT ![h].delay = @ + 1]
    /\ pc' = [pc EXCEPT ![h] = "fin_close"]
    /\ UNCHANGED << mainVars, stats, snap_seen, sock, current_delay, updated >>

\* lines 291-294: client_socket.close(), errors ignored
finally_close(h) ==
    /\ Alive /\ pc[h] = "fin_close"
    /\ sock' = [sock EXCEPT ![h] = "closed"]
    /\ teardown' = [teardown EXCEPT ![h].close = @ + 1]
    /\ pc' = [pc EXCEPT ![h] = "dec_read"]
    /\ UNCHANGED << mainVars, stats, snap_seen, ip_delays, tmp, current_delay, updated >>

\* line 296: self.stats['active_connections'] -= 1, the read
finally_dec_read(h) ==
    /\ Alive /\ pc[h] = "dec_read"
    /\ tmp' = [tmp EXCEPT ![h] = stats.active_connections]
    /\ pc' = [pc EXCEPT ![h] = "dec_write"]
    /\ UNCHANGED << mainVars, stats, snap_seen, ip_delays, sock, current_delay, teardown, updated >>

\* line 296, the write; line 297 logs the closure and the thread ends
finally_dec_write(h) ==
    /\ Alive /\ pc[h] = "dec_write"
    /\ stats' = [stats EXCEPT !.active_connections = tmp[h] - 1]
    /\ snap_seen' = Observed(stats')
    /\ tmp' = [tmp EXCEPT ![h] = 0]
    /\ teardown' = [teardown EXCEPT ![h].dec = @ + 1]
    /\ pc' = [pc EXCEPT ![h] = "done"]
    /\ UNCHANGED << mainVars, ip_delays, sock, current_delay, updated >>

(* ------------------------------ the system ----------------------------- *)
\* steps of the main thread in which it waits for nothing
MainCode ==
    \/ start_bind \/ start_http_stats_server \/ start_loop
    \/ start_spawn \/ start_thread_start \/ start_cleanup
    \/ start_finally \/ start_return
    \/ shutdown_set \/ shutdown_http
    \/ shutdown_drain \/ shutdown_final

\* accept() on the socket a signal's shutdown() has closed fails at once
accept_closed == server_socket = "closed" /\ start_accept_error

\* steps of the main thread that need nothing from outside the process
MainStep ==
    \/ MainCode
    \/ shutdown_http_wait
    \/ accept_closed

\* steps of handler h that need nothing from its client
HandlerStep(h) ==
    \/ hc_setup(h)
    \/ hc_total_read(h) \/ hc_total_write(h)
    \/ hc_active_read(h) \/ hc_active_write(h)
    \/ hc_per_ip_read(h) \/ hc_per_ip_write(h)
    \/ hc_delay(h) \/ hc_sleep(h) \/ send_ssh_banner(h)
    \/ monitor_check(h) \/ monitor_timeout(h) \/ monitor_continue(h)
    \/ finally_read(h) \/ finally_write(h) \/ finally_close(h)
    \/ finally_dec_read(h) \/ finally_dec_write(h)

\* steps of the exporter that need nothing from its clients
ExporterStep == http_bind \/ http_stop

\* what the outside world does: connections, client traffic, signals, and
\* requests to the exporter for paths other than /stats
Environment ==
    \/ \E a \in Addrs : start_accept(a)
    \/ start_accept_error
    \/ signal_handler
    \/ \E h \in Conns : monitor_data(h) \/ monitor_eof(h) \/ monitor_error(h)
    \/ http_request \/ http_request_done

Next ==
    \/ MainStep
    \/ \E h \in Conns : HandlerStep(h)
    \/ ExporterStep
    \/ Environment

Spec == Init /\ [][Next]_vars

\* the scheduler runs every thread that can run; the outside world owes nothing
FairSpec ==
    /\ Spec
    /\ WF_vars(MainStep)
    /\ \A h \in Conns : WF_vars(HandlerStep(h))
    /\ WF_vars(ExporterStep)

\* all clients are silent: they connect and then never send, close or reset
QuietEnvironment ==
    \/ \E a \in Addrs : start_accept(a)
    \/ start_accept_error
    \/ signal_handler
    \/ http_request \/ http_request_done

QuietNext ==
    \/ MainStep
    \/ \E h \in Conns : HandlerStep(h)
    \/ ExporterStep
    \/ QuietEnvironment

QuietSpec ==
    /\ Init /\ [][QuietNext]_vars
    /\ WF_vars(MainStep)
    /\ \A h \in Conns : WF_vars(HandlerStep(h))
    /\ WF_vars(ExporterStep)

\* the exporter is enabled and its clients ask for /stats; the clients of
\* the listener connect and close; no signal is sent
StatsInit == Init /\ cfg.enable_http_stats

StatsEnvironment ==
    \/ \E a \in Addrs : start_accept(a)
    \/ start_accept_error
    \/ \E h \in Conns : monitor_eof(h)
    \/ http_request \/ do_GET_copy \/ http_request_done

StatsNext ==
    \/ MainCode \/ shutdown_http_wait
    \/ \E h \in Conns : HandlerStep(h)
    \/ ExporterStep \/ do_GET_dict
    \/ StatsEnvironment

StatsSpec == StatsInit /\ [][StatsNext]_vars

\* a burst of connections from one address, whose clients stay silent; the
\* exporter is disabled and no signal is sent
BurstInit == Init /\ ~cfg.enable_http_stats

BurstEnvironment ==
    \/ accept(MaxBurst, 1)
    \/ start_accept_error

BurstNext ==
    \/ MainCode
    \/ \E h \in Conns : HandlerStep(h)
    \/ BurstEnvironment

BurstSpec == BurstInit /\ [][BurstNext]_vars

\* a run with a configuration from a file: the exporter is disabled and the
\* clients stay silent
ConfigInit == Start(LoadableConfigs)

ConfigEnvironment ==
    \/ \E a \in Addrs : start_accept(a)
    \/ start_accept_error
    \/ signal_handler

ConfigNext ==
    \/ MainCode \/ accept_closed
    \/ \E h \in Conns : HandlerStep(h)
    \/ ConfigEnvironment

ConfigSpec == ConfigInit /\ [][ConfigNext]_vars

\* one call of monitor_connection() on its own: its buffer is local to the
\* call and is only logged, so the reads of one connection are followed here
\* and the buffer is left out of the handlers above.
\* Lines 327-349: recv() returns data, which is appended, logged and trimmed.
monitor_read(data) ==
    /\ Len(buffer) + Len(data) <= MaxBuffer
    /\ buffer' = after_read(buffer, data)
    /\ UNCHANGED << cfg, running, server_socket, active_connections, stats, ip_delays,
                    mstack, signals, accepted, connVars, httpVars, seqOK, nFinal,
                    exit_code >>

BufferInit == Start(BufferConfigs)

BufferNext == \E data \in Chunks : monitor_read(data)

BufferSpec == BufferInit /\ [][BufferNext]_vars

(* ------------------------------ properties ----------------------------- *)
\* connections of address a whose handler has finished
Done(a) == { h \in Conns : pc[h] = "done" /\ addr[h] = a }

\* the delay the specification promises after n finished connections
PromisedDelay(n) ==
    Min(cfg.initial_delay + n * cfg.delay_increment, cfg.max_delay)

\* C1: as long as the connections of an address have been handled one after
\* another, the delay applied to its (N+1)-th connection, and the delay the
\* next connection would be given, is min(initial_delay + N * delay_increment,
\* max_delay), N being the number of its finished connections.
C1_SequentialDelay ==
    \A a \in Addrs : seqOK[a] =>
        /\ \A h \in Conns :
              (pc[h] = "sleep" /\ addr[h] = a) =>
                  current_delay[h] = PromisedDelay(Cardinality(Done(a)))
        /\ (\A h \in Conns : addr[h] = a => ~Live(h)) =>
              get_delay(DelayOf(ip_delays, a)) = PromisedDelay(Cardinality(Done(a)))

\* a second connection of an address is being delayed, by 3, after the first
\* one has finished, the two never having overlapped
C1_Witness ==
    \E h \in Conns :
        /\ pc[h] = "sleep" /\ seqOK[addr[h]]
        /\ Cardinality(Done(addr[h])) = 1
        /\ current_delay[h] = 3

\* handlers of address a that have stored their teardown update of the delay
Recorded(a) == { h \in Conns : addr[h] = a /\ teardown[h].delay > 0 }

\* C2: no teardown increment is lost: whenever no handler of an address is
\* between the read and the store of its teardown update, the stored delay is
\* min(initial_delay + N * delay_increment, max_delay) for the N handlers of
\* the address that have stored their update.
C2_NoLostIncrement ==
    \A a \in Addrs :
        (Recorded(a) # {} /\ \A h \in Conns : addr[h] = a => pc[h] # "fin_write") =>
            DelayOf(ip_delays, a) = PromisedDelay(Cardinality(Recorded(a)))

\* C3: once every accepted connection's handler has performed its statistics
\* update, total_connections equals the number of accepted connections.
C3_TotalExact ==
    (\A h \in 1..accepted : updated[h]) => stats.total_connections = accepted

\* C4: active_connections is never negative.
C4_ActiveNonNegative == stats.active_connections >= 0

\* C5: active_connections equals the number of sessions accepted and not yet
\* closed.
C5_ActiveEqualsOpenSessions ==
    stats.active_connections = Cardinality({ h \in Conns : sock[h] = "open" })

\* C6: every handler performs each teardown step at most once, none before
\* it has left the try block, and a handler that has ended, whatever ended it,
\* has performed each of them exactly once and has closed its socket.
C6_TeardownOnce ==
    \A h \in Conns :
        /\ teardown[h].delay <= 1 /\ teardown[h].close <= 1 /\ teardown[h].dec <= 1
        /\ pc[h] \notin {"fin_write", "fin_close", "dec_read", "dec_write", "done"} =>
              teardown[h] = [delay |-> 0, close |-> 0, dec |-> 0]
        /\ pc[h] = "done" =>
              /\ teardown[h] = [delay |-> 1, close |-> 1, dec |-> 1]
              /\ sock[h] = "closed"

\* one handler has ended on a failure before its statistics update, another
\* after monitoring its connection
C6_Witness ==
    \E g, h \in Conns :
        /\ pc[g] = "done" /\ ~updated[g]
        /\ pc[h] = "done" /\ updated[h]

\* a handler is in monitor_connection()
InMonitoring(h) == pc[h] \in {"monitor", "recv", "timeout"}

\* C7: while the server keeps running, a handler monitoring a client that
\* never sends anything eventually leaves monitor_connection().
C7_SilentClientDisconnected ==
    \A h \in Conns : InMonitoring(h) ~> (~InMonitoring(h) \/ ~running)

\* C8: the shutdown sequence is carried out at most once: the final
\* statistics are logged at most once, however shutdown() is invoked.
C8_ShutdownOnce == nFinal <= 1

\* C9: while the running flag is false the listener accepts no connection
\* and starts no handler thread.
C9_NothingStartedAfterShutdown ==
    [][ (\/ accepted' # accepted
         \/ \E h \in Conns : pc[h] = "registered" /\ pc'[h] = "setup") => running ]_vars

\* a call of shutdown() that found the server running has not returned yet
ShutdownInProgress == \E i \in 1..Len(mstack) : mstack[i].fn = "shutdown"

\* C10: a shutdown that has begun completes.
C10_ShutdownCompletes == ShutdownInProgress ~> ~ShutdownInProgress

\* C11: every snapshot the exporter serialises equals the live statistics of
\* one instant: when do_GET completes its snapshot (line 43), the counters it
\* copied at line 41 and the per-address mapping it copies now have been live
\* together at some instant since line 41.
C11_SnapshotAtomic ==
    [][ (http = "copied" /\ http' = "serving") =>
            current_stats.connections_per_ip \in snap_seen ]_vars

\* C12: a process that has exited after failing to bind or listen has a
\* non-zero exit code, and one that has exited after serving has exit code 0.
C12_ExitCode ==
    exit_code # -1 =>
        IF server_socket = "unbound" THEN exit_code # 0 ELSE exit_code = 0

\* C13: the stored delay of an address never decreases: no step leaves the
\* delay record of an address (initial_delay while it has none) smaller than
\* it was.
C13_DelayNeverDecreases ==
    [][ \A a \in Addrs : DelayOf(ip_delays', a) >= DelayOf(ip_delays, a) ]_vars

\* C14: the delay record of every address that has one lies in
\* [0, max_delay], and the delay a handler applies is at most max_delay.
C14_DelayInRange ==
    /\ \A a \in DOMAIN ip_delays : 0 <= ip_delays[a] /\ ip_delays[a] <= cfg.max_delay
    /\ \A h \in Conns : pc[h] = "sleep" => current_delay[h] <= cfg.max_delay

\* C15: total_connections never decreases: no step leaves it smaller than it
\* was.
C15_TotalNeverDecreases ==
    [][ stats'.total_connections >= stats.total_connections ]_vars

\* the state of the session of handler h, by number: 0 none yet, 1 ACCEPTED,
\* 2 DELAYING, 3 BANNER, 4 MONITORING, 5 CLOSED (teardown begun or over)
SessionState(p) ==
    CASE p = "none" -> 0
      [] p = "sleep" -> 2
      [] p = "banner" -> 3
      [] p \in {"monitor", "recv", "timeout"} -> 4
      [] p \in {"fin_read", "fin_write", "fin_close", "dec_read", "dec_write", "done"} -> 5
      [] OTHER -> 1

\* C16: a handler goes through ACCEPTED, DELAYING, BANNER, MONITORING, CLOSED
\* in that order: every step leaves its session in its state, or takes it to
\* the next state, or (once accepted) to CLOSED; so the banner starts only
\* after the delay, monitoring only after the banner, and CLOSED is final.
C16_StatesInOrder ==
    [][ \A h \in Conns :
          LET old == SessionState(pc[h])
              new == SessionState(pc'[h])
          IN  \/ new = old
              \/ new = old + 1
              \/ old >= 1 /\ new = 5 ]_vars

\* a session has gone through all five states, and another one is being delayed
C16_Witness ==
    \E g, h \in Conns :
        /\ pc[g] = "done" /\ updated[g]
        /\ SessionState(pc[h]) = 2

\* C17: a read timeout does not end the connection by itself: the handler
\* that has caught one has its socket open and has run no teardown step, and
\* its next step reads again if the server is still running, and otherwise
\* begins the teardown without reading again.
C17_TimeoutOnlyWakesUp ==
    [][ \A h \in Conns : pc[h] = "timeout" =>
          /\ sock[h] = "open"
          /\ teardown[h] = [delay |-> 0, close |-> 0, dec |-> 0]
          /\ pc'[h] \in {"timeout", IF running THEN "recv" ELSE "fin_read"} ]_vars

\* a handler has caught a read timeout and shutdown has begun meanwhile
C17_Witness ==
    \E h \in Conns : pc[h] = "timeout" /\ ~running /\ Alive

\* C18: an accept() that fails while the server is running does not end the
\* accept loop: the step in which accept() raises (the main thread is at
\* accept(), stays in start() and has accepted nothing) leaves the listener
\* in its loop whenever the running flag is set.
C18_AcceptFailureContinues ==
    [][ ( /\ At("start", "accept") /\ running
          /\ Len(mstack') = Len(mstack) /\ mstack' # mstack
          /\ accepted' = accepted )
        => mstack'[Len(mstack')].pc \in {"loop", "accept"} ]_vars

\* C19: the set of live handler handles is exact: it holds no handler that
\* has finished, and every handler that is running is in it.
C19_LiveSetExact ==
    /\ \A h \in active_connections : pc[h] # "done"
    /\ \A h \in Conns : is_alive(h) => h \in active_connections

\* the trailing n bytes of b (all of b if it has fewer)
Trailing(b, n) == SubSeq(b, IF Len(b) > n THEN Len(b) - n + 1 ELSE 1, Len(b))

\* C20: the buffer is a sliding window: every read appends a chunk and, if
\* the buffer is then longer than 2 * max_input_length, leaves exactly its
\* trailing max_input_length bytes; so after every read the buffer has at
\* most 2 * max_input_length bytes.
C20_SlidingWindow ==
    [][ buffer' # buffer =>
          /\ Len(buffer') <= 2 * cfg.max_input_length
          /\ \E data \in Chunks :
                LET b == buffer \o data
                IN  buffer' = IF Len(b) > 2 * cfg.max_input_length
                                THEN Trailing(b, cfg.max_input_length)
                                ELSE b ]_vars

\* C21: a handler is removed from the set of live handler handles only after
\* it has finished: every handler a step takes out of active_connections has
\* ended, so none that is registered and not yet started, or still running,
\* is reaped.
C21_ReapedOnlyWhenFinished ==
    [][ \A h \in active_connections \ active_connections' : pc[h] = "done" ]_vars

=============================================================================
